---- MODULE Spec2Model ----
(***************************************************************************)
(* HikeUp plan screen (apps/web/src/app/plan/page.tsx).                    *)
(*                                                                         *)
(* Eight specifications share this module:                                 *)
(*   Spec          the PlanPage component state (mode, coach routes,       *)
(*                 active route, routine, step, coach note, prompt);       *)
(*   SpecCoach     the generate button pressed from every mode with every  *)
(*                 one-word prompt;                                        *)
(*   SpecPanels    the routes sheet, the coach panel and the controls that *)
(*                 open and close them;                                    *)
(*   SpecMap       the MapView component (map bootstrap effect, route sync *)
(*                 effect, map instances and their load events);           *)
(*   SpecMapFair   SpecMap with the progress the runtime gives;            *)
(*   SpecParse     the pure function parsePrompt applied to bounded        *)
(*                 prompts made of words;                                  *)
(*   SpecDistance  parsePrompt applied to prompts that state a distance;   *)
(*   SpecSynth     the pure functions buildRouteFromPrompt, buildRoutine   *)
(*                 and buildRouteGeo applied to bounded arguments.         *)
(*                                                                         *)
(* A JavaScript string is a sequence of one-character strings, so that     *)
(* toLowerCase, trim, includes and the two regular expressions are         *)
(* computed character by character.  A distance is an integer number of    *)
(* 1/DistUnit km (exact decimal arithmetic; binary floating-point error is *)
(* not modelled).  An optional value (distanceKm?: number) is a sequence   *)
(* of length 0 or 1.                                                       *)
(***************************************************************************)
EXTENDS Integers, Sequences, FiniteSets, TLC

VARIABLES mode, customRoutes, activeRouteId, coachPrompt, routine,
          currentStepIndex, coachNote, lastOp,
          mapType, route, boots, maps, mapInstance, mapReady, microtasks,
          pPrompt, pMode, pResult, pc, pParts,
          sDistanceKm, sMode, sFocus, sIntent, sRoute, sRoutine, sGeo,
          sheetOpen, showCoachPanel, infoOpen, viewport, lastPress

planVars == <<mode, customRoutes, activeRouteId, coachPrompt, routine,
              currentStepIndex, coachNote, lastOp>>
mapVars == <<mapType, route, boots, maps, mapInstance, mapReady, microtasks>>
parseVars == <<pPrompt, pMode, pResult, pc, pParts>>
synthVars == <<sDistanceKm, sMode, sFocus, sIntent, sRoute, sRoutine, sGeo>>
panelVars == <<sheetOpen, showCoachPanel, infoOpen, viewport, lastPress>>
vars == <<planVars, mapVars, parseVars, synthVars, panelVars>>

(***************************************************************************)
(* Bounds of the model.                                                    *)
(***************************************************************************)
\* longest prompt, in words, given to parsePrompt under SpecParse
MaxWords == 2
\* most coach routes kept per mode under Spec
MaxCustom == 2
\* most runs of the map bootstrap effect under SpecMap
MaxBoots == 2
\* number of distinct values of MapView's route prop under SpecMap
NRoutes == 2
\* most once("load") handlers pending on one map under SpecMap
MaxOnce == 1
\* largest whole part of a distance typed into a prompt under SpecDistance
MaxWhole == 11
\* largest distance given to buildRouteFromPrompt under SpecSynth, in steps
\* of DistStep
MaxSteps == 260
\* number of setPaintProperty / setLayoutProperty calls of applyPastelTheme
\* that are told apart under SpecMap
NTweaks == 2

\* a distance is held in units of 1/DistUnit km (four decimal digits)
DistUnit == 10 * 10 * 10 * 10
\* the distances given to buildRouteFromPrompt under SpecSynth are the
\* multiples of 0.05 km
DistStep == DistUnit \div 20

(***************************************************************************)
(* Strings.                                                                *)
(***************************************************************************)
Modes == {"run", "jog", "walk", "hike"}
Intents == {"easy", "tempo", "intervals", "trail"}
Undefined == <<>>

DigitChars == <<"0", "1", "2", "3", "4", "5", "6", "7", "8", "9">>
UpperChars == <<"A", "B", "C", "D", "E", "F", "G", "H", "I", "J", "K", "L", "M", "N", "O", "P", "Q", "R", "S", "T", "U", "V", "W", "X", "Y", "Z", "Á", "É", "Í", "Ó", "Ú", "Ñ">>
LowerChars == <<"a", "b", "c", "d", "e", "f", "g", "h", "i", "j", "k", "l", "m", "n", "o", "p", "q", "r", "s", "t", "u", "v", "w", "x", "y", "z", "á", "é", "í", "ó", "ú", "ñ">>
\* the characters matched by \s and removed by trim()
WhiteSpace == {" ", "\t", "\n"}

IsDigit(c) == \E i \in 1..Len(DigitChars) : DigitChars[i] = c
DigitVal(c) == (CHOOSE i \in 1..Len(DigitChars) : DigitChars[i] = c) - 1

\* String.prototype.toLowerCase
toLowerCase(s) ==
  [i \in 1..Len(s) |->
     IF \E k \in 1..Len(UpperChars) : UpperChars[k] = s[i]
       THEN LowerChars[CHOOSE k \in 1..Len(UpperChars) : UpperChars[k] = s[i]]
       ELSE s[i]]

\* String.prototype.trim
trim(s) ==
  LET keep == {i \in 1..Len(s) : s[i] \notin WhiteSpace}
  IN IF keep = {} THEN <<>>
     ELSE SubSeq(s, CHOOSE i \in keep : \A j \in keep : i <= j,
                    CHOOSE i \in keep : \A j \in keep : i >= j)

\* s has w at position p
HasAt(s, p, w) == p + Len(w) - 1 <= Len(s) /\ SubSeq(s, p, p + Len(w) - 1) = w

\* String.prototype.includes
includes(s, w) == \E p \in 1..(Len(s) + 1) : HasAt(s, p, w)

(***************************************************************************)
(* The keywords of parsePrompt.                                            *)
(***************************************************************************)
K_caminar == <<"c", "a", "m", "i", "n", "a", "r">>
K_trot == <<"t", "r", "o", "t">>
K_trail == <<"t", "r", "a", "i", "l">>
K_sendero == <<"s", "e", "n", "d", "e", "r", "o">>
K_correr == <<"c", "o", "r", "r", "e", "r">>
K_rapido == <<"r", "á", "p", "i", "d", "o">>
K_interval == <<"i", "n", "t", "e", "r", "v", "a", "l">>
K_series == <<"s", "e", "r", "i", "e", "s">>
K_tempo == <<"t", "e", "m", "p", "o">>
K_ritmo == <<"r", "i", "t", "m", "o">>
K_desnivel == <<"d", "e", "s", "n", "i", "v", "e", "l">>
K_parque == <<"p", "a", "r", "q", "u", "e">>
K_ilumin == <<"i", "l", "u", "m", "i", "n">>
K_trafico == <<"t", "r", "á", "f", "i", "c", "o">>
K_km == <<"k", "m">>
K_k == <<"k">>
K_kil == <<"k", "i", "l">>
K_metros == <<"m", "e", "t", "r", "o", "s">>
K_mi == <<"m", "i">>
K_millas == <<"m", "i", "l", "l", "a", "s">>

(***************************************************************************)
(* The words prompts are built from.                                       *)
(***************************************************************************)
W_caminar == <<"c", "a", "m", "i", "n", "a", "r">>
W_trotar == <<"t", "r", "o", "t", "a", "r">>
W_Trail == <<"T", "r", "a", "i", "l">>
W_sendero == <<"s", "e", "n", "d", "e", "r", "o">>
W_correr == <<"c", "o", "r", "r", "e", "r">>
W_rapidos == <<"r", "á", "p", "i", "d", "o", "s">>
W_intervalos == <<"i", "n", "t", "e", "r", "v", "a", "l", "o", "s">>
W_series == <<"s", "e", "r", "i", "e", "s">>
W_tempo == <<"t", "e", "m", "p", "o">>
W_ritmo == <<"r", "i", "t", "m", "o">>
W_desnivel == <<"d", "e", "s", "n", "i", "v", "e", "l">>
W_parque == <<"p", "a", "r", "q", "u", "e">>
W_iluminada == <<"i", "l", "u", "m", "i", "n", "a", "d", "a">>
W_trafico == <<"t", "r", "á", "f", "i", "c", "o">>
W_Quiero == <<"Q", "u", "i", "e", "r", "o">>
W_suaves == <<"s", "u", "a", "v", "e", "s">>
W_7 == <<"7">>
W_7c5k == <<"7", ",", "5", "k">>
W_7c04 == <<"7", ",", "0", "4">>
W_km == <<"k", "m">>
W_3 == <<"3">>
W_mi == <<"m", "i">>
W_Un == <<"U", "n">>
W_con == <<"c", "o", "n">>
W_en == <<"e", "n">>
Vocabulary ==
  {W_caminar, W_trotar, W_Trail, W_sendero, W_correr, W_rapidos,
   W_intervalos, W_series, W_tempo, W_ritmo, W_desnivel, W_parque,
   W_iluminada, W_trafico, W_Quiero, W_suaves, W_7, W_7c5k,
   W_7c04, W_km, W_3, W_mi}

(***************************************************************************)
(* parsePrompt.                                                            *)
(***************************************************************************)
RECURSIVE DigitsValue(_)
DigitsValue(ds) ==
  IF ds = <<>> THEN 0
  ELSE DigitsValue(SubSeq(ds, 1, Len(ds) - 1)) * 10 + DigitVal(ds[Len(ds)])

RECURSIVE FracValue(_, _)
FracValue(fs, unit) ==
  IF fs = <<>> \/ unit = 1 THEN 0
  ELSE DigitVal(Head(fs)) * (unit \div 10) + FracValue(Tail(fs), unit \div 10)

\* parseFloat(capture) without the replace: the parse stops at a comma
parseFloatNoReplace(cap) ==
  LET commas == {i \in 1..Len(cap) : cap[i] = ","}
      dots == {i \in 1..Len(cap) : cap[i] = "."}
  IN IF commas # {} THEN DigitsValue(SubSeq(cap, 1, (CHOOSE i \in commas : TRUE) - 1)) * DistUnit
     ELSE IF dots = {} THEN DigitsValue(cap) * DistUnit
     ELSE LET p == CHOOSE i \in dots : TRUE
          IN DigitsValue(SubSeq(cap, 1, p - 1)) * DistUnit
             + FracValue(SubSeq(cap, p + 1, Len(cap)), DistUnit)

\* parseFloat(capture.replace(",", ".")) for a capture of (\d+(?:[.,]\d+)?),
\* in units of 1/DistUnit km
parseFloat(cap) ==
  LET seps == {i \in 1..Len(cap) : cap[i] \in {".", ","}}
  IN IF seps = {} THEN DigitsValue(cap) * DistUnit
     ELSE LET p == CHOOSE i \in seps : TRUE
          IN DigitsValue(SubSeq(cap, 1, p - 1)) * DistUnit
             + FracValue(SubSeq(cap, p + 1, Len(cap)), DistUnit)

\* the last index of the run of digits that starts at i
DigitRunEnd(s, i) ==
  CHOOSE j \in i..Len(s) :
    /\ \A k \in i..j : IsDigit(s[k])
    /\ (j = Len(s) \/ ~IsDigit(s[j + 1]))

\* the last index of the greedy match of \d+(?:[.,]\d+)? that starts at i
NumberEnd(s, i) ==
  LET j == DigitRunEnd(s, i)
  IN IF j + 2 <= Len(s) /\ s[j + 1] \in {".", ","} /\ IsDigit(s[j + 2])
       THEN DigitRunEnd(s, j + 2)
       ELSE j

\* the first index from p on that \s* does not consume
SkipSpace(s, p) ==
  CHOOSE q \in p..(Len(s) + 1) :
    /\ \A k \in p..(q - 1) : s[k] \in WhiteSpace
    /\ (q = Len(s) + 1 \/ s[q] \notin WhiteSpace)

\* (km|k|kil[oó]metros) at p
KmUnitAt(s, p) ==
  \/ HasAt(s, p, K_km)
  \/ HasAt(s, p, K_k)
  \/ \E o \in {"o", "ó"} : HasAt(s, p, K_kil \o <<o>> \o K_metros)

\* (mi|millas) at p
MiUnitAt(s, p) == HasAt(s, p, K_mi) \/ HasAt(s, p, K_millas)

\* capture group 1 of the leftmost match of the km expression, <<>> for null.
\* Backtracking finds no other match at a start: a shorter number is
\* followed by a digit or a separator, never by white space or a unit.
kmMatch(lower) ==
  LET starts == {i \in 1..Len(lower) :
                   IsDigit(lower[i])
                   /\ KmUnitAt(lower, SkipSpace(lower, NumberEnd(lower, i) + 1))}
  IN IF starts = {} THEN <<>>
     ELSE LET i == CHOOSE a \in starts : \A b \in starts : a <= b
          IN SubSeq(lower, i, NumberEnd(lower, i))

miMatch(lower) ==
  LET starts == {i \in 1..Len(lower) :
                   IsDigit(lower[i])
                   /\ MiUnitAt(lower, SkipSpace(lower, NumberEnd(lower, i) + 1))}
  IN IF starts = {} THEN <<>>
     ELSE LET i == CHOOSE a \in starts : \A b \in starts : a <= b
          IN SubSeq(lower, i, NumberEnd(lower, i))

\* the conversion with the factor 1.6
TimesMileShort(x) == (x * 16) \div 10

\* x * 1.609
TimesMile(x) == (x * 1609) \div 1000

parsePromptDistance(lower) ==
  IF kmMatch(lower) # <<>> THEN <<parseFloat(kmMatch(lower))>>
  ELSE IF miMatch(lower) # <<>> THEN <<TimesMile(parseFloat(miMatch(lower)))>>
  ELSE Undefined

\* the four checks as an if / else-if chain: the first matching one decides
parsePromptModeFirstWins(lower, currentMode) ==
  IF includes(lower, K_caminar) THEN "walk"
  ELSE IF includes(lower, K_trot) THEN "jog"
  ELSE IF includes(lower, K_trail) \/ includes(lower, K_sendero) THEN "hike"
  ELSE IF includes(lower, K_correr) \/ includes(lower, K_rapido)
          \/ includes(lower, K_interval) THEN "run"
  ELSE currentMode

\* the four checks starting from "run" instead of the mode passed in
parsePromptModeDefaultRun(lower, currentMode) ==
  LET m1 == IF includes(lower, K_caminar) THEN "walk" ELSE "run"
      m2 == IF includes(lower, K_trot) THEN "jog" ELSE m1
      m3 == IF includes(lower, K_trail) \/ includes(lower, K_sendero)
              THEN "hike" ELSE m2
  IN m3

\* four assignments in sequence: the last matching one decides
parsePromptMode(lower, currentMode) ==
  LET m0 == currentMode
      m1 == IF includes(lower, K_caminar) THEN "walk" ELSE m0
      m2 == IF includes(lower, K_trot) THEN "jog" ELSE m1
      m3 == IF includes(lower, K_trail) \/ includes(lower, K_sendero)
              THEN "hike" ELSE m2
      m4 == IF includes(lower, K_correr) \/ includes(lower, K_rapido)
               \/ includes(lower, K_interval)
              THEN "run" ELSE m3
  IN m4

\* the intent with the trail rule tested before the interval rule
parsePromptIntentTrailFirst(lower) ==
  IF includes(lower, K_trail) \/ includes(lower, K_desnivel) THEN "trail"
  ELSE IF includes(lower, K_interval) \/ includes(lower, K_series) THEN "intervals"
  ELSE IF includes(lower, K_tempo) \/ includes(lower, K_ritmo) THEN "tempo"
  ELSE "easy"

parsePromptIntent(lower) ==
  IF includes(lower, K_interval) \/ includes(lower, K_series) THEN "intervals"
  ELSE IF includes(lower, K_tempo) \/ includes(lower, K_ritmo) THEN "tempo"
  ELSE IF includes(lower, K_trail) \/ includes(lower, K_desnivel) THEN "trail"
  ELSE "easy"

\* the focus with the trail intent tested before the keywords
parsePromptFocusIntentFirst(lower, intent) ==
  IF intent = "trail" THEN "Terreno mixto"
  ELSE IF includes(lower, K_parque) THEN "Parques"
  ELSE IF includes(lower, K_ilumin) THEN "Iluminación alta"
  ELSE IF includes(lower, K_trafico) THEN "Tráfico bajo"
  ELSE "Ruta equilibrada"

parsePromptFocus(lower, intent) ==
  IF includes(lower, K_parque) THEN "Parques"
  ELSE IF includes(lower, K_ilumin) THEN "Iluminación alta"
  ELSE IF includes(lower, K_trafico) THEN "Tráfico bajo"
  ELSE IF intent = "trail" THEN "Terreno mixto"
  ELSE "Ruta equilibrada"

\* { f(x) : x \in {e} } evaluates e once, as a const declaration does
parsePrompt(prompt, currentMode) ==
  CHOOSE result \in
    {[mode |-> parsePromptMode(lower, currentMode),
      distanceKm |-> parsePromptDistance(lower),
      focus |-> parsePromptFocus(lower, parsePromptIntent(lower)),
      intent |-> parsePromptIntent(lower)] : lower \in {toLowerCase(prompt)}} : TRUE

(***************************************************************************)
(* Route and routine synthesis.                                            *)
(***************************************************************************)
\* Math.round of a non-negative value held in units of 1/unit
Round(x, unit) == (2 * x + unit) \div (2 * unit)

Pt(x, y) == [x |-> x, y |-> y, label |-> Undefined]
PtL(x, y, label) == [x |-> x, y |-> y, label |-> <<label>>]

\* Array.prototype.splice(at, 0, item), at counted from 0
splice(arr, at, item) == SubSeq(arr, 1, at) \o <<item>> \o SubSeq(arr, at + 1, Len(arr))

\* generateShape with the thresholds included (>= 9, >= 12)
generateShapeInclusive(distanceKm) ==
  LET base0 == <<PtL(12, 86, "Inicio"), Pt(36, 64), Pt(58, 50), PtL(82, 26, "Fin")>>
      base1 == IF distanceKm >= 9 * DistUnit
                 THEN LET sp == splice(base0, 2, PtL(48, 56, "Punto"))
                      IN [sp EXCEPT ![Len(sp)] = PtL(86, 18, "Fin")]
                 ELSE base0
      base2 == IF distanceKm >= 12 * DistUnit
                 THEN splice(base1, 1, PtL(26, 74, "Extra"))
                 ELSE base1
  IN base2

\* generateShape with the early point of the second threshold put at the front
generateShapeExtraFirst(distanceKm) ==
  LET base0 == <<PtL(12, 86, "Inicio"), Pt(36, 64), Pt(58, 50), PtL(82, 26, "Fin")>>
      base1 == IF distanceKm > 9 * DistUnit
                 THEN LET sp == splice(base0, 2, PtL(48, 56, "Punto"))
                      IN [sp EXCEPT ![Len(sp)] = PtL(86, 18, "Fin")]
                 ELSE base0
      base2 == IF distanceKm > 12 * DistUnit
                 THEN splice(base1, 0, PtL(26, 74, "Extra"))
                 ELSE base1
  IN base2

generateShape(distanceKm) ==
  LET base0 == <<PtL(12, 86, "Inicio"), Pt(36, 64), Pt(58, 50), PtL(82, 26, "Fin")>>
      base1 == IF distanceKm > 9 * DistUnit
                 THEN LET sp == splice(base0, 2, PtL(48, 56, "Punto"))
                      IN [sp EXCEPT ![Len(sp)] = PtL(86, 18, "Fin")]
                 ELSE base0
      base2 == IF distanceKm > 12 * DistUnit
                 THEN splice(base1, 1, PtL(26, 74, "Extra"))
                 ELSE base1
  IN base2

\* pace in tenths of a minute per km
paceTenths(m) ==
  IF m = "walk" THEN 115 ELSE IF m = "jog" THEN 65 ELSE IF m = "hike" THEN 105 ELSE 52

\* estimateTime with Math.floor
estimateTimeFloor(distanceKm, m) == (distanceKm * paceTenths(m)) \div (10 * DistUnit)

estimateTime(distanceKm, m) == Round(distanceKm * paceTenths(m), 10 * DistUnit)

\* suggestDistance with the defaults of walk and jog exchanged
suggestDistanceSwapped(m) ==
  IF m = "walk" THEN (65 * DistUnit) \div 10
  ELSE IF m = "jog" THEN (45 * DistUnit) \div 10
  ELSE IF m = "hike" THEN (105 * DistUnit) \div 10
  ELSE 8 * DistUnit

suggestDistance(m) ==
  IF m = "walk" THEN (45 * DistUnit) \div 10
  ELSE IF m = "jog" THEN (65 * DistUnit) \div 10
  ELSE IF m = "hike" THEN (105 * DistUnit) \div 10
  ELSE 8 * DistUnit

\* the id with Math.floor
coachIdFloor(distanceKm, m) == <<"coach", m, ToString((distanceKm * 10) \div DistUnit)>>

\* `coach-${mode}-${Math.round(distanceKm * 10)}`
coachId(distanceKm, m) == <<"coach", m, ToString(Round(distanceKm * 10, DistUnit))>>

\* buildRouteFromPrompt with the surface mirroring the focus for every mode
buildRouteSurfaceFocus(distanceKm, m, focus) ==
  [id |-> coachId(distanceKm, m),
   title |-> <<"Coach: ", focus>>,
   distanceKm |-> distanceKm,
   safety |-> focus,
   elevation |-> IF m = "hike" THEN "+200 m" ELSE IF m = "run" THEN "+80 m" ELSE "+40 m",
   estMinutes |-> estimateTime(distanceKm, m),
   surface |-> focus,
   points |-> generateShape(distanceKm)]

buildRouteFromPrompt(distanceKm, m, focus) ==
  [id |-> coachId(distanceKm, m),
   title |-> <<"Coach: ", focus>>,
   distanceKm |-> distanceKm,
   safety |-> focus,
   elevation |-> IF m = "hike" THEN "+200 m" ELSE IF m = "run" THEN "+80 m" ELSE "+40 m",
   estMinutes |-> estimateTime(distanceKm, m),
   surface |-> IF m = "hike" THEN "Trail" ELSE focus,
   points |-> generateShape(distanceKm)]

Item(step, detail) == [step |-> step, detail |-> detail]

\* buildRoutine giving the walk mode the routine the screen starts with
buildRoutineByMode(intent) ==
  IF sMode = "walk" THEN
    <<Item("Calentamiento", "8 min movilidad + 5 min trote suave"),
      Item("Bloque", "4 x 1 km a ritmo 5:10/km (rec 2 min)"),
      Item("Enfriar", "8 min trote suave + estiramientos")>>
  ELSE IF intent = "intervals" THEN
    <<Item("Calentamiento", "12 min movilidad + 8 min trote"),
      Item("Series", "6 x 600 m rápido (rec 90s trote)"),
      Item("Progresivo", "2 km subiendo ritmo"),
      Item("Enfriar", "10 min trote + estiramientos")>>
  ELSE IF intent = "tempo" THEN
    <<Item("Calentamiento", "10 min trote + técnica de carrera"),
      Item("Tempo", "20 min a ritmo controlado"),
      Item("Bloque", "2 x 1 km a ritmo de 10K"),
      Item("Enfriar", "8 min trote + movilidad")>>
  ELSE IF intent = "trail" THEN
    <<Item("Calentamiento", "12 min movilidad + subidas suaves"),
      Item("Bloque", "4 km subida controlada"),
      Item("Técnico", "3 km bajada con pasos cortos"),
      Item("Enfriar", "10 min caminata plana")>>
  ELSE
    <<Item("Calentamiento", "8 min movilidad + 5 min trote suave"),
      Item("Bloque", "20-30 min ritmo conversacional"),
      Item("Strides", "4 x 20s aceleración suave"),
      Item("Enfriar", "8 min trote suave + estiramientos")>>

buildRoutine(intent) ==
  IF intent = "intervals" THEN
    <<Item("Calentamiento", "12 min movilidad + 8 min trote"),
      Item("Series", "6 x 600 m rápido (rec 90s trote)"),
      Item("Progresivo", "2 km subiendo ritmo"),
      Item("Enfriar", "10 min trote + estiramientos")>>
  ELSE IF intent = "tempo" THEN
    <<Item("Calentamiento", "10 min trote + técnica de carrera"),
      Item("Tempo", "20 min a ritmo controlado"),
      Item("Bloque", "2 x 1 km a ritmo de 10K"),
      Item("Enfriar", "8 min trote + movilidad")>>
  ELSE IF intent = "trail" THEN
    <<Item("Calentamiento", "12 min movilidad + subidas suaves"),
      Item("Bloque", "4 km subida controlada"),
      Item("Técnico", "3 km bajada con pasos cortos"),
      Item("Enfriar", "10 min caminata plana")>>
  ELSE
    <<Item("Calentamiento", "8 min movilidad + 5 min trote suave"),
      Item("Bloque", "20-30 min ritmo conversacional"),
      Item("Strides", "4 x 20s aceleración suave"),
      Item("Enfriar", "8 min trote suave + estiramientos")>>

defaultRoutine ==
  <<Item("Calentamiento", "8 min movilidad + 5 min trote suave"),
    Item("Bloque", "4 x 1 km a ritmo 5:10/km (rec 2 min)"),
    Item("Enfriar", "8 min trote suave + estiramientos")>>

\* km.toFixed(1) followed by " km"
formatDistance(km) ==
  LET tenths == Round(km * 10, DistUnit)
  IN <<ToString(tenths \div 10), ".", ToString(tenths % 10), " km">>

modeMetaLabel(m) ==
  IF m = "run" THEN <<"C", "o", "r", "r", "e", "r">>
  ELSE IF m = "jog" THEN <<"T", "r", "o", "t", "a", "r">>
  ELSE IF m = "walk" THEN <<"C", "a", "m", "i", "n", "a", "r">>
  ELSE <<"T", "r", "a", "i", "l">>

capitalize(text) ==
  IF text = <<>> THEN <<>>
  ELSE <<IF \E k \in 1..Len(LowerChars) : LowerChars[k] = text[1]
           THEN UpperChars[CHOOSE k \in 1..Len(LowerChars) : LowerChars[k] = text[1]]
           ELSE text[1]>> \o Tail(text)

(***************************************************************************)
(* The built-in catalog.                                                   *)
(***************************************************************************)
\* MAP_CENTER as [lng, lat]; a coordinate is held in units of 0.00001 degree
MAP_CENTER == <<-7404200, 469460>>

\* the callback of route.points.map with the latitude offset not flipped
toLngLatNoFlip(p) == <<MAP_CENTER[1] + (p.x - 50) * 75, MAP_CENTER[2] + (p.y - 50) * 75>>

\* the callback of route.points.map in buildRouteGeo (0.00075 degree is 75
\* units)
toLngLat(p) ==
  LET lngOffset == (p.x - 50) * 75
      latOffset == (50 - p.y) * 75
  IN <<MAP_CENTER[1] + lngOffset, MAP_CENTER[2] + latOffset>>

Min(a, b) == IF a < b THEN a ELSE b
Max(a, b) == IF a > b THEN a ELSE b

\* coords.reduce from position i on, with accumulator acc
RECURSIVE reduceBounds(_, _, _)
reduceBounds(coords, i, acc) ==
  IF i > Len(coords) THEN acc
  ELSE reduceBounds(coords, i + 1,
         [sw |-> <<Min(acc.sw[1], coords[i][1]), Min(acc.sw[2], coords[i][2])>>,
          ne |-> <<Max(acc.ne[1], coords[i][1]), Max(acc.ne[2], coords[i][2])>>])

\* buildRouteGeo(route); idx counts from 1 here, so the default label of a
\* middle point is P followed by idx
buildRouteGeo(r) ==
  LET coords == [i \in 1..Len(r.points) |-> toLngLat(r.points[i])]
      bounds == reduceBounds(coords, 1, [sw |-> coords[1], ne |-> coords[1]])
      line == [coordinates |-> coords, title |-> r.title]
      points == [idx \in 1..Len(coords) |->
                   [coordinates |-> coords[idx],
                    label |-> IF r.points[idx].label # Undefined THEN r.points[idx].label[1]
                              ELSE IF idx = 1 THEN "Inicio"
                              ELSE IF idx = Len(coords) THEN "Fin"
                              ELSE "P" \o ToString(idx),
                    kind |-> IF idx = 1 THEN "start"
                             ELSE IF idx = Len(coords) THEN "end" ELSE "mid"]]
  IN [line |-> line, points |-> points, bounds |-> bounds]

BaseRoute(id, title, tenthsKm, safety, elevation, estMinutes, surface, points) ==
  [id |-> id, title |-> <<title>>, distanceKm |-> (tenthsKm * DistUnit) \div 10,
   safety |-> safety, elevation |-> elevation, estMinutes |-> estMinutes,
   surface |-> surface, points |-> points]

baseRoutes ==
  [m \in Modes |->
     IF m = "run" THEN
       <<BaseRoute(<<"run-quick">>, "Ritmo estable", 84,
                   "Zonas iluminadas · Bajo tráfico", "+64 m", 44, "Asfalto + parque",
                   <<PtL(12, 84, "Inicio"), PtL(36, 60, "x km"), Pt(66, 44),
                     PtL(88, 18, "Fin")>>),
         BaseRoute(<<"run-scenic">>, "Escénica", 92,
                   "Parques y ciclorruta", "+92 m", 49, "Verde + mixto",
                   <<PtL(10, 86, "Inicio"), Pt(32, 64), PtL(56, 54, "Mirador"),
                     PtL(80, 24, "Fin")>>)>>
     ELSE IF m = "jog" THEN
       <<BaseRoute(<<"jog-soft">>, "Suave y seguro", 60,
                   "Parques y aceras amplias", "+40 m", 40, "Parque",
                   <<PtL(14, 84, "Inicio"), Pt(40, 62), PtL(64, 56, "Pausa agua"),
                     PtL(86, 30, "Fin")>>)>>
     ELSE IF m = "walk" THEN
       <<BaseRoute(<<"walk-daily">>, "Caminata diaria", 40,
                   "Alta iluminación", "+18 m", 48, "Ciudad",
                   <<PtL(16, 84, "Inicio"), Pt(38, 70), Pt(60, 60),
                     PtL(82, 34, "Fin")>>)>>
     ELSE
       <<BaseRoute(<<"hike-green">>, "Sendero verde", 113,
                   "Terreno mixto", "+240 m", 92, "Trail",
                   <<PtL(18, 86, "Inicio"), PtL(42, 70, "Bosque"), Pt(64, 54),
                     PtL(78, 36, "Cima"), PtL(90, 20, "Fin")>>)>>]

(***************************************************************************)
(* Prompts.                                                                *)
(***************************************************************************)
RECURSIVE Join(_)
Join(ws) ==
  IF ws = <<>> THEN <<>>
  ELSE IF Len(ws) = 1 THEN ws[1]
  ELSE ws[1] \o <<" ">> \o Join(Tail(ws))

RECURSIVE WordSeqs(_)
WordSeqs(n) ==
  IF n = 0 THEN {<<>>}
  ELSE LET shorter == WordSeqs(n - 1)
       IN shorter \cup {Append(ws, w) : ws \in {x \in shorter : Len(x) = n - 1},
                                         w \in Vocabulary}

\* the prompts parsePrompt is applied to under SpecParse
ParsePrompts == {Join(ws) : ws \in WordSeqs(MaxWords)}

\* the prompts typed into the coach panel under Spec
PlanPrompts ==
  {<<>>,
   <<" ", "\n">>,
   Join(<<W_Quiero, W_7, W_km, W_suaves, W_en, W_parque>>),
   <<" ">> \o Join(<<W_caminar, W_7c04, W_km>>) \o <<" ">>,
   Join(<<W_Un, W_Trail, W_con, W_desnivel>>)}

(***************************************************************************)
(* PlanPage: the component state and its handlers.                         *)
(***************************************************************************)
\* routes = [...baseRoutes[mode], ...(customRoutes[mode] ?? [])]
routesOf(m, custom) == baseRoutes[m] \o custom[m]

routes == routesOf(mode, customRoutes)

\* routes.find((r) => r.id === activeRouteId) ?? routes[0]
find(rs, id) ==
  LET hits == {i \in 1..Len(rs) : rs[i].id = id}
  IN IF hits = {} THEN Undefined
     ELSE <<rs[CHOOSE i \in hits : \A j \in hits : i <= j]>>

activeRoute ==
  IF find(routes, activeRouteId) # Undefined THEN find(routes, activeRouteId)
  ELSE IF Len(routes) > 0 THEN <<routes[1]>>
  ELSE Undefined

\* the filter that keeps every entry
filterKeepAll(rs, id) == rs

\* list.filter((r) => r.id !== id)
filterNotId(rs, id) ==
  LET keep == {i \in 1..Len(rs) : rs[i].id # id}
      F[n \in 0..Len(rs)] ==
        IF n = 0 THEN <<>>
        ELSE IF n \in keep THEN Append(F[n - 1], rs[n]) ELSE F[n - 1]
  IN F[Len(rs)]

\* the insert that drops the other entries of the list
coachInsertAlone(list, newRoute) == <<newRoute>>

\* the insert without the filter
coachInsertNoFilter(list, newRoute) == Append(list, newRoute)

\* [...list.filter((r) => r.id !== newRoute.id), newRoute]
coachInsert(list, newRoute) == Append(filterNotId(list, newRoute.id), newRoute)

\* the emptiness test without trim()
promptRejectedNoTrim(text) == text = <<>>

\* const prompt = coachPrompt.trim(); if (!prompt) return;
promptRejected(text) == trim(text) = <<>>

\* lastOp records the handler that ran last: its name, the Intent parsePrompt
\* returned in it (none when parsePrompt was not called) and whether the
\* generated route took the place of an entry with the same id
Op(name) == [op |-> name, parsed |-> Undefined, replaced |-> FALSE]

InitPlan ==
  /\ mode = "run"
  /\ customRoutes = [m \in Modes |-> <<>>]
  /\ activeRouteId = baseRoutes["run"][1].id
  /\ coachPrompt = <<>>
  /\ routine = defaultRoutine
  /\ currentStepIndex = 0
  /\ coachNote = [title |-> "Listo para salir",
                  desc |-> <<"Selecciona una ruta o pide al coach que la adapte.">>]
  /\ lastOp = Op("mount")

\* the textarea's onChange
onPromptChange(v) ==
  /\ coachPrompt' = v
  /\ lastOp' = Op("onPromptChange")
  /\ UNCHANGED <<mode, customRoutes, activeRouteId, routine, currentStepIndex, coachNote>>

handleCoachPlan ==
  IF promptRejected(coachPrompt)
    THEN /\ lastOp' = Op("handleCoachPlan")
         /\ UNCHANGED <<mode, customRoutes, activeRouteId, coachPrompt, routine,
                        currentStepIndex, coachNote>>
    ELSE \E parsed \in {parsePrompt(trim(coachPrompt), mode)} :
         \E distanceKm \in {IF parsed.distanceKm # Undefined THEN parsed.distanceKm[1]
                            ELSE suggestDistance(parsed.mode)} :
         \E newRoute \in {buildRouteFromPrompt(distanceKm, parsed.mode, parsed.focus)} :
           /\ Len(coachInsert(customRoutes[parsed.mode], newRoute)) <= MaxCustom
           /\ mode' = parsed.mode
           /\ customRoutes' = [customRoutes EXCEPT ![parsed.mode] =
                                 coachInsert(customRoutes[parsed.mode], newRoute)]
           /\ activeRouteId' = newRoute.id
           /\ routine' = buildRoutine(parsed.intent)
           /\ currentStepIndex' = 0
           /\ coachNote' = [title |-> "Coach generó ruta",
                            desc |-> <<capitalize(modeMetaLabel(parsed.mode)), " · ">>
                                     \o formatDistance(distanceKm)
                                     \o <<" · ", parsed.focus>>]
           /\ lastOp' = [op |-> "handleCoachPlan", parsed |-> <<parsed>>,
                         replaced |-> \E i \in 1..Len(customRoutes[parsed.mode]) :
                                        customRoutes[parsed.mode][i].id = newRoute.id]
           /\ UNCHANGED coachPrompt

\* setMode without the reset of the selection
setModeKeepsSelection(m) ==
  /\ mode' = m
  /\ lastOp' = Op("setMode")
  /\ UNCHANGED <<activeRouteId, customRoutes, coachPrompt, routine, currentStepIndex,
                 coachNote>>

\* setMode taking the first route of the list with the coach routes first
setModeCoachFirst(m) ==
  LET list == customRoutes[m] \o baseRoutes[m]
  IN /\ mode' = m
     /\ activeRouteId' = IF Len(list) > 0 THEN list[1].id ELSE activeRouteId
     /\ lastOp' = Op("setMode")
     /\ UNCHANGED <<customRoutes, coachPrompt, routine, currentStepIndex, coachNote>>

\* the setMode prop handed to BottomSheet
setMode(m) ==
  LET list == routesOf(m, customRoutes)
  IN /\ mode' = m
     /\ activeRouteId' = IF Len(list) > 0 THEN list[1].id ELSE activeRouteId
     /\ lastOp' = Op("setMode")
     /\ UNCHANGED <<customRoutes, coachPrompt, routine, currentStepIndex, coachNote>>

\* the setActiveRouteId prop handed to BottomSheet
setActiveRouteId(id) ==
  /\ activeRouteId' = id
  /\ currentStepIndex' = 0
  /\ lastOp' = Op("setActiveRouteId")
  /\ UNCHANGED <<mode, customRoutes, coachPrompt, routine, coachNote>>

\* onStepChange counting the steps from 1
onStepChangeFromOne(idx) ==
  /\ currentStepIndex' = idx + 1
  /\ lastOp' = Op("onStepChange")
  /\ UNCHANGED <<mode, customRoutes, activeRouteId, coachPrompt, routine, coachNote>>

\* onStepChange = setCurrentStepIndex
onStepChange(idx) ==
  /\ currentStepIndex' = idx
  /\ lastOp' = Op("onStepChange")
  /\ UNCHANGED <<mode, customRoutes, activeRouteId, coachPrompt, routine, coachNote>>

PromptChange == \E v \in PlanPrompts : onPromptChange(v) /\ UNCHANGED <<mapVars, parseVars, synthVars, panelVars>>
Generate == handleCoachPlan /\ UNCHANGED <<mapVars, parseVars, synthVars, panelVars>>
ModeClick == \E m \in Modes : setMode(m) /\ UNCHANGED <<mapVars, parseVars, synthVars, panelVars>>
RouteClick ==
  \E i \in 1..Len(routes) : setActiveRouteId(routes[i].id) /\ UNCHANGED <<mapVars, parseVars, synthVars, panelVars>>
StepClick ==
  \E idx \in 0..(Len(routine) - 1) : onStepChange(idx) /\ UNCHANGED <<mapVars, parseVars, synthVars, panelVars>>

NextPlan == PromptChange \/ Generate \/ ModeClick \/ RouteClick \/ StepClick

\* the prompts the generate button is pressed with under SpecCoach: those of
\* Spec and every single word
CoachPrompts == PlanPrompts \cup {Join(ws) : ws \in WordSeqs(1)}

\* the screen after a switch to some mode, a step selection and a prompt typed
InitCoach ==
  /\ mode \in Modes
  /\ customRoutes = [m \in Modes |-> <<>>]
  /\ activeRouteId = baseRoutes[mode][1].id
  /\ coachPrompt \in CoachPrompts
  /\ routine = defaultRoutine
  /\ currentStepIndex \in 0..(Len(defaultRoutine) - 1)
  /\ coachNote = [title |-> "Listo para salir",
                  desc |-> <<"Selecciona una ruta o pide al coach que la adapte.">>]
  /\ lastOp = Op("onPromptChange")

(***************************************************************************)
(* parsePrompt applied to bounded prompts.                                 *)
(***************************************************************************)
InitParse ==
  /\ pPrompt \in ParsePrompts
  /\ pMode \in Modes
  /\ pResult = Undefined
  /\ pc = "call"
  /\ pParts = Undefined

InitParseIdle ==
  /\ pPrompt = <<>>
  /\ pMode = "run"
  /\ pResult = Undefined
  /\ pc = "idle"
  /\ pParts = Undefined

Classify ==
  /\ pc = "call"
  /\ pResult' = <<parsePrompt(pPrompt, pMode)>>
  /\ pc' = "done"
  /\ UNCHANGED <<pPrompt, pMode, pParts, planVars, mapVars, synthVars, panelVars>>

(***************************************************************************)
(* parsePrompt applied to prompts that state a distance.                   *)
(*                                                                         *)
(* A prompt is assembled from parts: the text before the number, the whole *)
(* part of the number, an optional fraction (separator, number of digits,  *)
(* digits as an integer), the white space between number and unit, the     *)
(* unit, and the text after it.  pParts keeps the parts the prompt was     *)
(* assembled from.                                                         *)
(***************************************************************************)
RECURSIVE Digits(_)
Digits(n) ==
  IF n < 10 THEN <<DigitChars[n + 1]>>
  ELSE Digits(n \div 10) \o <<DigitChars[(n % 10) + 1]>>

\* n written with the given number of digits, zeros in front
RECURSIVE ZeroPad(_, _)
ZeroPad(n, digits) ==
  IF digits = 0 THEN <<>>
  ELSE ZeroPad(n \div 10, digits - 1) \o <<DigitChars[(n % 10) + 1]>>

Fractions ==
  {Undefined} \cup
  {<<[sep |-> sep, digits |-> f[1], n |-> f[2]]>> :
     sep \in {".", ","}, f \in {<<1, 5>>, <<2, 4>>, <<2, 50>>}}

U_kilometros == K_kil \o <<"ó">> \o K_metros
U_kilometrosPlain == K_kil \o <<"o">> \o K_metros
U_KM == <<"K", "M">>
KmUnits == {K_km, K_k, U_kilometros, U_kilometrosPlain, U_KM}
MiUnits == {K_mi, K_millas}

Gaps == {<<>>, <<" ">>, <<"\t", " ">>}
Befores == {<<>>, W_Quiero \o <<" ">>, <<"r", "u", "t", "a">>}
A_5km == <<" ", "5", " ", "k", "m">>
A_2millas == <<" ", "2", " ">> \o K_millas
Afters == {<<>>, <<" ">> \o W_suaves, A_5km, A_2millas}

DistanceParts ==
  [before : Befores, whole : 0..MaxWhole, frac : Fractions, gap : Gaps,
   unit : KmUnits \cup MiUnits, after : Afters]

NumberText(parts) ==
  Digits(parts.whole) \o
  (IF parts.frac = Undefined THEN <<>>
   ELSE <<parts.frac[1].sep>> \o ZeroPad(parts.frac[1].n, parts.frac[1].digits))

DistancePrompt(parts) ==
  parts.before \o NumberText(parts) \o parts.gap \o parts.unit \o parts.after

InitDistance ==
  /\ pParts \in {<<parts>> : parts \in DistanceParts}
  /\ pPrompt = DistancePrompt(pParts[1])
  /\ pMode = "run"
  /\ pResult = Undefined
  /\ pc = "call"

(***************************************************************************)
(* buildRouteFromPrompt and buildRoutine applied to bounded arguments.     *)
(***************************************************************************)
SynthDistances == {k * DistStep : k \in 0..MaxSteps}
SynthFocuses == {"Parques", "Ruta equilibrada"}

InitSynth ==
  /\ sDistanceKm \in SynthDistances
  /\ sMode \in Modes
  /\ sFocus \in SynthFocuses
  /\ sIntent \in Intents
  /\ sRoute = Undefined
  /\ sRoutine = Undefined
  /\ sGeo = Undefined

InitSynthIdle ==
  /\ sDistanceKm = 0
  /\ sMode = "run"
  /\ sFocus = "Ruta equilibrada"
  /\ sIntent = "easy"
  /\ sRoute = Undefined
  /\ sRoutine = Undefined
  /\ sGeo = Undefined

BuildRoute ==
  /\ sRoute = Undefined
  /\ sRoute' = <<buildRouteFromPrompt(sDistanceKm, sMode, sFocus)>>
  /\ UNCHANGED <<sDistanceKm, sMode, sFocus, sIntent, sRoutine, sGeo,
                 planVars, mapVars, parseVars, panelVars>>

BuildRoutine ==
  /\ sRoutine = Undefined
  /\ sRoutine' = <<buildRoutine(sIntent)>>
  /\ UNCHANGED <<sDistanceKm, sMode, sFocus, sIntent, sRoute, sGeo,
                 planVars, mapVars, parseVars, panelVars>>

\* the routes buildRouteGeo is given: the catalog routes of the mode and the
\* route built
GeoRoutes ==
  {baseRoutes[sMode][i] : i \in 1..Len(baseRoutes[sMode])}
    \cup {sRoute[i] : i \in 1..Len(sRoute)}

BuildGeo ==
  /\ sGeo = Undefined
  /\ \E r \in GeoRoutes : sGeo' = <<[route |-> r, geo |-> buildRouteGeo(r)]>>
  /\ UNCHANGED <<sDistanceKm, sMode, sFocus, sIntent, sRoute, sRoutine,
                 planVars, mapVars, parseVars, panelVars>>

NextSynth == BuildRoute \/ BuildRoutine \/ BuildGeo

(***************************************************************************)
(* MapView: the map bootstrap effect, the route sync effect and the map    *)
(* instances.                                                              *)
(*                                                                         *)
(* boots[b] is the b-th run of the bootstrap effect: the mapType and route *)
(* its closures captured, its cancelled flag, its stage and the map it     *)
(* constructed (0: none).  maps[k] is the k-th maplibregl.Map constructed: *)
(* the boot that made it, whether remove() was called, whether its load    *)
(* event has fired, the routes of the pending once("load") handlers of the *)
(* route sync effect, the route its route layers hold (0: none), and the   *)
(* styling calls of applyPastelTheme that were applied (theme) and that    *)
(* threw (failed).                                                         *)
(* mapInstance is mapInstance.current (0: null).                           *)
(*                                                                         *)
(* Every import("maplibre-gl") awaits the same chunk, so when it settles   *)
(* the continuations of all waiting boots are queued as microtasks in the  *)
(* order the boots started, and run before any other event.                *)
(***************************************************************************)
MapTypes == {"map", "sat"}
RouteVals == 1..NRoutes

NewBoot(t, r) == [mapType |-> t, route |-> r, cancelled |-> FALSE,
                  stage |-> "importing", map |-> 0]

\* map.remove(): the map is gone, and its style with it
remove(ms, k) ==
  IF k = 0 THEN ms
  ELSE [ms EXCEPT ![k].removed = TRUE, ![k].theme = {}, ![k].failed = {}]

\* syncRouteLayers(map, route): the route sources hold the route's geometry
syncRouteLayers(ms, k, r) == [ms EXCEPT ![k].layers = r]

\* the effect without its readiness test
routeSyncEffectEager(ms, inst, ready, r, styleLoaded) ==
  IF inst = 0 THEN ms ELSE syncRouteLayers(ms, inst, r)

\* the effect with dependencies [route, mapReady]; styleLoaded is the value
\* map.isStyleLoaded() returns
routeSyncEffect(ms, inst, ready, r, styleLoaded) ==
  IF inst = 0 THEN ms
  ELSE IF ready /\ styleLoaded THEN syncRouteLayers(ms, inst, r)
  ELSE [ms EXCEPT ![inst].once = Append(@, r)]

\* the values map.isStyleLoaded() can return
StyleLoadedVals(ms, inst) ==
  IF inst # 0 /\ ms[inst].loaded /\ ~ms[inst].removed THEN BOOLEAN ELSE {FALSE}

InitMap ==
  /\ mapType = "map"
  /\ route = 1
  /\ boots = <<NewBoot("map", 1)>>
  /\ maps = <<>>
  /\ mapInstance = 0
  /\ mapReady = FALSE
  /\ microtasks = <<>>

\* setMapType(t): the cleanup of the previous run of the bootstrap effect,
\* then the new run up to its await
setMapType(t) ==
  /\ microtasks = <<>>
  /\ t # mapType
  /\ Len(boots) < MaxBoots
  /\ mapType' = t
  /\ mapReady' = FALSE
  /\ maps' = remove(maps, mapInstance)
  /\ mapInstance' = 0
  /\ boots' = Append([boots EXCEPT ![Len(boots)].cancelled = TRUE], NewBoot(t, route))
  /\ UNCHANGED <<route, microtasks>>

Importing == {b \in 1..Len(boots) : boots[b].stage = "importing"}

RECURSIVE Ascending(_)
Ascending(S) ==
  IF S = {} THEN <<>>
  ELSE LET m == CHOOSE a \in S : \A b \in S : a <= b
       IN <<m>> \o Ascending(S \ {m})

\* the chunk loads: every waiting boot resumes after its await
importResolved ==
  /\ microtasks = <<>>
  /\ Importing # {}
  /\ microtasks' = Ascending(Importing)
  /\ UNCHANGED <<mapType, route, boots, maps, mapInstance, mapReady>>

\* the chunk fails to load: every waiting boot takes its catch branch
importRejected ==
  /\ microtasks = <<>>
  /\ Importing # {}
  /\ boots' = [b \in 1..Len(boots) |->
                 IF b \in Importing THEN [boots[b] EXCEPT !.stage = "failed"]
                 ELSE boots[b]]
  /\ UNCHANGED <<mapType, route, maps, mapInstance, mapReady, microtasks>>

\* boot() after its await: new maplibregl.Map, map.on("load"), and
\* mapInstance.current = map
bootContinue ==
  /\ microtasks # <<>>
  /\ LET b == Head(microtasks)
         k == Len(maps) + 1
     IN /\ maps' = Append(maps, [boot |-> b, removed |-> FALSE, loaded |-> FALSE,
                                 once |-> <<>>, layers |-> 0,
                                 theme |-> {}, failed |-> {}])
        /\ boots' = [boots EXCEPT ![b].stage = "constructed", ![b].map = k]
        /\ mapInstance' = k
  /\ microtasks' = Tail(microtasks)
  /\ UNCHANGED <<mapType, route, mapReady>>

\* boot() after its await when new maplibregl.Map throws: the catch branch
bootThrows ==
  /\ microtasks # <<>>
  /\ boots' = [boots EXCEPT ![Head(microtasks)].stage = "failed"]
  /\ microtasks' = Tail(microtasks)
  /\ UNCHANGED <<mapType, route, maps, mapInstance, mapReady>>

\* the property calls of applyPastelTheme, in the order they are made
TweakSteps == 1..NTweaks

\* applyPastelTheme without its try/catch: the first failing call ends it
applyPastelThemeNoCatch(ms, k, failing) ==
  LET first == CHOOSE t \in failing : \A u \in failing : t <= u
  IN IF failing = {} THEN [ms EXCEPT ![k].theme = TweakSteps]
     ELSE [ms EXCEPT ![k].theme = {t \in TweakSteps : t < first},
                     ![k].failed = failing]

\* applyPastelTheme(map): every call sits in its own try/catch, so the calls
\* of `failing` throw and all the others are applied
applyPastelTheme(ms, k, failing) ==
  [ms EXCEPT ![k].theme = TweakSteps \ failing, ![k].failed = failing]

\* the calls of applyPastelTheme that can throw on the map of boot b
FailingVals(b) ==
  IF ~boots[b].cancelled /\ boots[b].mapType = "map" THEN SUBSET TweakSteps ELSE {{}}

\* what the handler of map.on("load") registered by boot b does to (maps,
\* ready) when the calls of `failing` throw
bootLoadHandler(ms, k, ready, failing) ==
  LET b == ms[k].boot
      themed == IF boots[b].mapType = "map" THEN applyPastelTheme(ms, k, failing) ELSE ms
  IN IF boots[b].cancelled THEN [maps |-> ms, ready |-> ready]
     ELSE [maps |-> syncRouteLayers(themed, k, boots[b].route), ready |-> TRUE]

\* what the pending map.once("load") handlers do, in registration order
RECURSIVE onceLoadHandlers(_, _, _, _)
onceLoadHandlers(ms, k, ready, rs) ==
  IF rs = <<>> THEN [maps |-> ms, ready |-> ready]
  ELSE onceLoadHandlers(syncRouteLayers(ms, k, Head(rs)), k, TRUE, Tail(rs))

\* map k fires its load event; the route sync effect runs again when the
\* handlers changed mapReady
mapLoad(k) ==
  /\ microtasks = <<>>
  /\ ~maps[k].removed
  /\ ~maps[k].loaded
  /\ \E failing \in FailingVals(maps[k].boot) :
       LET fired == [maps EXCEPT ![k].loaded = TRUE, ![k].once = <<>>]
           h1 == bootLoadHandler(fired, k, mapReady, failing)
           h2 == onceLoadHandlers(h1.maps, k, h1.ready, maps[k].once)
       IN /\ mapReady' = h2.ready
          /\ IF h2.ready # mapReady
               THEN \E sl \in StyleLoadedVals(h2.maps, mapInstance) :
                      maps' = routeSyncEffect(h2.maps, mapInstance, h2.ready, route, sl)
               ELSE maps' = h2.maps
  /\ UNCHANGED <<mapType, route, boots, mapInstance, microtasks>>

\* the route prop changes: the route sync effect runs
routeChange(r) ==
  /\ microtasks = <<>>
  /\ r # route
  /\ (mapInstance # 0 => Len(maps[mapInstance].once) < MaxOnce)
  /\ route' = r
  /\ \E sl \in StyleLoadedVals(maps, mapInstance) :
       maps' = routeSyncEffect(maps, mapInstance, mapReady, r, sl)
  /\ UNCHANGED <<mapType, boots, mapInstance, mapReady, microtasks>>

MapTypeClick == \E t \in MapTypes : setMapType(t) /\ UNCHANGED <<planVars, parseVars, synthVars, panelVars>>
ImportResolved == importResolved /\ UNCHANGED <<planVars, parseVars, synthVars, panelVars>>
ImportRejected == importRejected /\ UNCHANGED <<planVars, parseVars, synthVars, panelVars>>
BootContinue == bootContinue /\ UNCHANGED <<planVars, parseVars, synthVars, panelVars>>
BootThrows == bootThrows /\ UNCHANGED <<planVars, parseVars, synthVars, panelVars>>
MapLoad == \E k \in 1..Len(maps) : mapLoad(k) /\ UNCHANGED <<planVars, parseVars, synthVars, panelVars>>
RouteChange == \E r \in RouteVals : routeChange(r) /\ UNCHANGED <<planVars, parseVars, synthVars, panelVars>>

NextMap ==
  \/ MapTypeClick \/ ImportResolved \/ ImportRejected \/ BootContinue \/ BootThrows
  \/ MapLoad \/ RouteChange

(***************************************************************************)
(* PlanPage: the routes sheet, the coach panel and the controls that open  *)
(* and close them.                                                         *)
(*                                                                         *)
(* The state updates one event handler makes are applied in the order they *)
(* were queued, so a handler is a composition of functions on the pair     *)
(* (sheetOpen, showCoachPanel); what a handler reads from its closure is   *)
(* read from the state variables.  viewport is the width class of the      *)
(* window: BottomNav is shown below 768px ("narrow"), SideRail from 768px, *)
(* and isMobile holds up to 1024px ("narrow" and "medium").                *)
(***************************************************************************)
Viewports == {"narrow", "medium", "wide"}

\* the matchMedia("(max-width: 1024px)") effect
isMobile == viewport # "wide"

Panels == [sheetOpen |-> sheetOpen, showCoachPanel |-> showCoachPanel]

toggleRoutes(q) == [q EXCEPT !.sheetOpen = ~@]
closeRoutes(q) == [q EXCEPT !.sheetOpen = FALSE]
closeCoachPanel(q) == [q EXCEPT !.showCoachPanel = FALSE]

toggleCoachPanel(q) ==
  LET next == ~q.showCoachPanel
      q1 == IF next THEN closeRoutes(q) ELSE q
  IN [q1 EXCEPT !.showCoachPanel = next]

\* SideRail's onClosePanels
onClosePanels(q) == closeCoachPanel(closeRoutes(q))

\* BottomNav's onShowMap
onShowMap(q) == closeCoachPanel(closeRoutes(q))

\* BottomSheet's onToggle; sheetOpen is the value its closure holds
onToggle(q) ==
  LET next == ~sheetOpen
      q1 == IF next THEN closeCoachPanel(q) ELSE q
  IN toggleRoutes(q1)

\* the BottomNav Ruta button with onToggleRoutes called before onShowMap
navRutaToggleFirst(q) == onShowMap(toggleRoutes(q))

\* the onClick of the BottomNav buttons
navMapa(q) == onShowMap(q)
navRuta(q) == toggleRoutes(onShowMap(q))
navCoach(q) == toggleCoachPanel(onShowMap(q))

\* BottomSheet's collapsedDesktop
collapsedDesktop == ~isMobile /\ ~sheetOpen

InitPanels ==
  /\ sheetOpen = FALSE
  /\ showCoachPanel = FALSE
  /\ infoOpen = FALSE
  /\ viewport \in Viewports
  /\ lastPress = "none"

\* one event: the updates of q are committed together
Press(name, q) ==
  /\ sheetOpen' = q.sheetOpen
  /\ showCoachPanel' = q.showCoachPanel
  /\ lastPress' = name
  /\ UNCHANGED <<infoOpen, viewport, planVars, mapVars, parseVars, synthVars>>

SideRailMapa == viewport # "narrow" /\ Press("rail-mapa", onClosePanels(Panels))
SideRailRuta == viewport # "narrow" /\ Press("rail-ruta", toggleRoutes(Panels))
SideRailCoach == viewport # "narrow" /\ Press("rail-coach", toggleCoachPanel(Panels))
SideRailChat == viewport # "narrow" /\ Press("rail-chat", onClosePanels(Panels))
BottomNavMapa == viewport = "narrow" /\ Press("nav-mapa", navMapa(Panels))
BottomNavRuta == viewport = "narrow" /\ Press("nav-ruta", navRuta(Panels))
BottomNavCoach == viewport = "narrow" /\ Press("nav-coach", navCoach(Panels))

\* a click on the collapsed sheet outside its button
SheetClick == collapsedDesktop /\ Press("sheet", onToggle(Panels))

\* a click on the sheet's button (the sheet is hidden when closed on mobile);
\* the click bubbles to the container, whose handler calls onToggle again
\* when the sheet was rendered collapsed
SheetButton ==
  /\ isMobile => sheetOpen
  /\ Press("sheet-button",
           IF collapsedDesktop THEN onToggle(onToggle(Panels)) ELSE onToggle(Panels))

\* the close button of the coach panel (shown while the panel is open)
CoachClose == showCoachPanel /\ Press("coach-close", closeCoachPanel(Panels))

\* the Info button of TopControls (shown when isMobile)
InfoToggle ==
  /\ isMobile
  /\ infoOpen' = ~infoOpen
  /\ lastPress' = "info"
  /\ UNCHANGED <<sheetOpen, showCoachPanel, viewport, planVars, mapVars, parseVars, synthVars>>

\* the window is resized
Resize ==
  /\ \E v \in Viewports \ {viewport} : viewport' = v
  /\ lastPress' = "resize"
  /\ UNCHANGED <<sheetOpen, showCoachPanel, infoOpen, planVars, mapVars, parseVars, synthVars>>

NextPanels ==
  \/ SideRailMapa \/ SideRailRuta \/ SideRailCoach \/ SideRailChat
  \/ BottomNavMapa \/ BottomNavRuta \/ BottomNavCoach
  \/ SheetClick \/ SheetButton \/ CoachClose \/ InfoToggle \/ Resize

(***************************************************************************)
(* Specifications.                                                         *)
(***************************************************************************)
InitPanelsIdle ==
  /\ sheetOpen = FALSE
  /\ showCoachPanel = FALSE
  /\ infoOpen = FALSE
  /\ viewport = "wide"
  /\ lastPress = "none"

Init == InitPlan /\ InitMap /\ InitParseIdle /\ InitSynthIdle /\ InitPanelsIdle
Next == NextPlan
Spec == Init /\ [][Next]_vars

SpecMap == Init /\ [][NextMap]_vars

\* the load event of map k alone
MapLoadOf(k) ==
  k <= Len(maps) /\ mapLoad(k) /\ UNCHANGED <<planVars, parseVars, synthVars, panelVars>>

\* SpecMap with the progress the runtime gives: a pending import settles, a
\* queued continuation runs, and a map that was constructed and not removed
\* fires its load event.  The user's actions (MapTypeClick, RouteChange) need
\* never happen.
SpecMapFair ==
  /\ Init /\ [][NextMap]_vars
  /\ WF_vars(ImportResolved \/ ImportRejected)
  /\ WF_vars(BootContinue \/ BootThrows)
  /\ \A k \in 1..MaxBoots : WF_vars(MapLoadOf(k))

InitClassify == InitPlan /\ InitMap /\ InitParse /\ InitSynthIdle /\ InitPanelsIdle
SpecParse == InitClassify /\ [][Classify]_vars

InitClassifyDistance == InitPlan /\ InitMap /\ InitDistance /\ InitSynthIdle /\ InitPanelsIdle
SpecDistance == InitClassifyDistance /\ [][Classify]_vars

InitSynthesis == InitPlan /\ InitMap /\ InitParseIdle /\ InitSynth /\ InitPanelsIdle
SpecSynth == InitSynthesis /\ [][NextSynth]_vars

InitGenerate == InitCoach /\ InitMap /\ InitParseIdle /\ InitSynthIdle /\ InitPanelsIdle
SpecCoach == InitGenerate /\ [][Generate]_vars

InitPanelsOnly == InitPlan /\ InitMap /\ InitParseIdle /\ InitSynthIdle /\ InitPanels
SpecPanels == InitPanelsOnly /\ [][NextPanels]_vars

(***************************************************************************)
(* Properties of the plan screen (checked under Spec).                     *)
(***************************************************************************)
IdsOf(rs) == {rs[i].id : i \in 1..Len(rs)}
CatalogThenCoach(m) == baseRoutes[m] \o customRoutes[m]
Generated == lastOp.op = "handleCoachPlan" /\ lastOp.parsed # Undefined
IsBlank(text) == \A i \in 1..Len(text) : text[i] \in WhiteSpace

\* C1: in every reachable state exactly one entry of the current mode's route
\* list (its catalog routes followed by its coach routes) carries the active
\* id, and that entry is the active route.
C1_ExactlyOneActiveRoute ==
  LET list == CatalogThenCoach(mode)
      hits == {i \in 1..Len(list) : list[i].id = activeRouteId}
  IN /\ Cardinality(hits) = 1
     /\ activeRoute # Undefined
     /\ \A i \in hits : activeRoute[1] = list[i]

C1_Witness ==
  /\ Generated
  /\ mode = "hike"
  /\ Len(customRoutes["hike"]) = 2
  /\ Len(customRoutes["walk"]) = 1
  /\ activeRoute = <<customRoutes["hike"][2]>>

\* C2: after a switch of the activity mode the active id is the id of the
\* first route of the new mode's list, catalog entries first, then coach
\* routes.
C2_ModeSwitchSelectsFirst ==
  lastOp.op = "setMode" =>
    /\ activeRouteId = CatalogThenCoach(mode)[1].id
    /\ activeRoute = <<CatalogThenCoach(mode)[1]>>
    /\ (baseRoutes[mode] # <<>> => activeRouteId = baseRoutes[mode][1].id)

C2_Witness ==
  /\ lastOp.op = "setMode"
  /\ mode = "hike"
  /\ Len(customRoutes["hike"]) = 2
  /\ activeRouteId = <<"hike-green">>

\* C3: no coach list ever holds two routes with the same id, and a coach
\* generation lengthens the list of the inferred mode by one when the id of
\* the generated route is new to it and leaves its length alone when the
\* route takes the place of an entry with that id.
C3_ReplaceById ==
  [][/\ \A m \in Modes : \A i, j \in 1..Len(customRoutes'[m]) :
          customRoutes'[m][i].id = customRoutes'[m][j].id => i = j
     /\ (lastOp'.op = "handleCoachPlan" /\ lastOp'.parsed # Undefined) =>
          LET m == lastOp'.parsed[1].mode
          IN /\ customRoutes'[m][Len(customRoutes'[m])].id = activeRouteId'
             /\ IF activeRouteId' \in IdsOf(customRoutes[m])
                  THEN Len(customRoutes'[m]) = Len(customRoutes[m])
                  ELSE Len(customRoutes'[m]) = Len(customRoutes[m]) + 1]_vars

C3_Witness ==
  /\ Generated
  /\ lastOp.replaced
  /\ Len(customRoutes["hike"]) = 2
  /\ customRoutes["hike"][2].id = <<"coach", "hike", "70">>

\* C6: a press of the generate button with an empty or white-space-only
\* prompt does not call parsePrompt and leaves mode, coach lists, active id,
\* routine, step index and coach note as they were.
C6_BlankPromptNoOp ==
  [][(lastOp'.op = "handleCoachPlan" /\ IsBlank(coachPrompt)) =>
       /\ lastOp'.parsed = Undefined
       /\ UNCHANGED <<mode, customRoutes, activeRouteId, coachPrompt, routine,
                      currentStepIndex, coachNote>>]_vars

C6_Witness ==
  /\ lastOp.op = "handleCoachPlan"
  /\ lastOp.parsed = Undefined
  /\ coachPrompt = <<" ", "\n">>
  /\ customRoutes["hike"] # <<>>
  /\ currentStepIndex = 2

(***************************************************************************)
(* Properties of the map view (checked under SpecMap).                     *)
(***************************************************************************)
Alive == {k \in 1..Len(maps) : ~maps[k].removed}
Superseded(k) == boots[maps[k].boot].cancelled
\* no import is awaited, no continuation is queued and every map that was
\* not removed has fired its load event
AllBootsFinished ==
  /\ microtasks = <<>>
  /\ Importing = {}
  /\ \A k \in Alive : maps[k].loaded

Failed(b) == boots[b].stage = "failed"
\* the step in which boot b takes its catch branch
Fails(b) == ~Failed(b) /\ boots'[b].stage = "failed"

FocusLabels ==
  {"Parques", "Iluminación alta", "Tráfico bajo", "Terreno mixto", "Ruta equilibrada"}
IsIntent(r) ==
  /\ DOMAIN r = {"mode", "distanceKm", "focus", "intent"}
  /\ r.mode \in Modes
  /\ r.distanceKm = Undefined \/ (Len(r.distanceKm) = 1 /\ r.distanceKm[1] \in Nat)
  /\ r.focus \in FocusLabels
  /\ r.intent \in Intents
AllKeywords ==
  {K_caminar, K_trot, K_trail, K_sendero, K_correr, K_rapido, K_interval, K_series,
   K_tempo, K_ritmo, K_desnivel, K_parque, K_ilumin, K_trafico}
pLower == toLowerCase(pPrompt)
HasAny(kws) == \E kw \in kws : includes(pLower, kw)
NoKeyword == ~HasAny(AllKeywords)
NoDistance == kmMatch(pLower) = <<>> /\ miMatch(pLower) = <<>>

\* the index of the first, and of the last, rule of a table whose keywords
\* the prompt holds (0: none)
FirstRule(table) ==
  LET hit == {i \in 1..Len(table) : HasAny(table[i].kws)}
  IN IF hit = {} THEN 0 ELSE CHOOSE i \in hit : \A j \in hit : i <= j
LastRule(table) ==
  LET hit == {i \in 1..Len(table) : HasAny(table[i].kws)}
  IN IF hit = {} THEN 0 ELSE CHOOSE i \in hit : \A j \in hit : i >= j

ModeRules ==
  <<[kws |-> {K_caminar}, is |-> "walk"],
    [kws |-> {K_trot}, is |-> "jog"],
    [kws |-> {K_trail, K_sendero}, is |-> "hike"],
    [kws |-> {K_correr, K_rapido, K_interval}, is |-> "run"]>>
IntentRules ==
  <<[kws |-> {K_interval, K_series}, is |-> "intervals"],
    [kws |-> {K_tempo, K_ritmo}, is |-> "tempo"],
    [kws |-> {K_trail, K_desnivel}, is |-> "trail"]>>
FocusRules ==
  <<[kws |-> {K_parque}, is |-> "Parques"],
    [kws |-> {K_ilumin}, is |-> "Iluminación alta"],
    [kws |-> {K_trafico}, is |-> "Tráfico bajo"]>>

\* C7: parsePrompt returns an Intent for every prompt, and for a prompt with
\* no keyword and no distance it returns the mode passed in, no distance, the
\* balanced-route focus ("Ruta equilibrada") and the easy intent.
C7_ClassifierTotal ==
  pc = "done" =>
    /\ Len(pResult) = 1
    /\ IsIntent(pResult[1])
    /\ (NoKeyword /\ NoDistance) =>
         pResult[1] = [mode |-> pMode, distanceKm |-> Undefined,
                       focus |-> "Ruta equilibrada", intent |-> "easy"]

C7_Witness ==
  /\ pc = "done"
  /\ NoKeyword /\ NoDistance
  /\ Len(pPrompt) > 6
  /\ pMode = "walk"
  /\ pResult[1].mode = "walk"

\* C8: the inferred mode is the mode of the last matching check in the order
\* walk keyword, jog keyword, trail/sendero keywords, run/fast/interval
\* keywords, and the mode passed in when no check matches.
C8_LastMatchingCheckWins ==
  pc = "done" =>
    pResult[1].mode = IF LastRule(ModeRules) = 0 THEN pMode
                      ELSE ModeRules[LastRule(ModeRules)].is

C8_Witness ==
  /\ pc = "done"
  /\ HasAny(ModeRules[1].kws)
  /\ HasAny(ModeRules[3].kws)
  /\ ~HasAny(ModeRules[4].kws)
  /\ pMode = "run"
  /\ pResult[1].mode = "hike"

\* C9: the training intent is that of the first matching rule in the order
\* interval/series, tempo/ritmo, trail/desnivel, and easy when none matches;
\* it is the same for every current mode and with a distance added to the
\* prompt.
C9_IntentFirstMatch ==
  pc = "done" =>
    /\ pResult[1].intent = IF FirstRule(IntentRules) = 0 THEN "easy"
                           ELSE IntentRules[FirstRule(IntentRules)].is
    /\ \A m \in Modes :
         /\ parsePrompt(pPrompt, m).intent = pResult[1].intent
         /\ parsePrompt(Join(<<pPrompt, W_7, W_km>>), m).intent = pResult[1].intent
         /\ parsePrompt(Join(<<W_3, W_mi, pPrompt>>), m).intent = pResult[1].intent

C9_Witness ==
  /\ pc = "done"
  /\ HasAny(IntentRules[1].kws)
  /\ HasAny(IntentRules[3].kws)
  /\ pResult[1].intent = "intervals"

\* C10: the focus label is that of the first matching rule in the order
\* parque ("Parques"), ilumin ("Iluminación alta"), tráfico ("Tráfico
\* bajo"); when none matches it is "Terreno mixto" if the intent is trail and
\* "Ruta equilibrada" otherwise, so "Terreno mixto" is returned exactly when
\* the intent is trail and no such keyword is present.
C10_FocusFirstMatch ==
  pc = "done" =>
    /\ pResult[1].focus =
         IF FirstRule(FocusRules) # 0 THEN FocusRules[FirstRule(FocusRules)].is
         ELSE IF pResult[1].intent = "trail" THEN "Terreno mixto"
         ELSE "Ruta equilibrada"
    /\ (pResult[1].focus = "Terreno mixto") <=>
         (pResult[1].intent = "trail" /\ ~HasAny({K_parque, K_ilumin, K_trafico}))

C10_Witness ==
  /\ pc = "done"
  /\ pResult[1].intent = "trail"
  /\ HasAny({K_parque})
  /\ pResult[1].focus = "Parques"

(***************************************************************************)
(* Properties of the distance of parsePrompt (checked under SpecDistance). *)
(***************************************************************************)
\* the number a prompt was assembled from, in units of 1/DistUnit km
NumberValue(parts) ==
  parts.whole * DistUnit
  + (IF parts.frac = Undefined THEN 0
     ELSE (parts.frac[1].n * DistUnit) \div (IF parts.frac[1].digits = 1 THEN 10 ELSE 100))
Classified == pc = "done" /\ pParts # Undefined

\* C11: for a prompt whose first number is followed by km, k or kilómetros
\* (in either case, with or without white space between them) the parsed
\* distance is that number, a comma read as the decimal point, whatever text
\* or other distance follows it.
C11_KmDistance ==
  (Classified /\ pParts[1].unit \in KmUnits) =>
    pResult[1].distanceKm = <<NumberValue(pParts[1])>>

C11_Witness ==
  /\ Classified
  /\ pParts[1].unit = U_kilometros
  /\ pParts[1].whole = 10
  /\ pParts[1].frac = <<[sep |-> ",", digits |-> 2, n |-> 4]>>
  /\ pParts[1].gap = <<"\t", " ">>
  /\ pParts[1].after = A_2millas
  /\ pResult[1].distanceKm = <<10 * DistUnit + 4 * (DistUnit \div 100)>>

\* d is x * 1.609 cut to a whole number of units
IsTimesMile(d, x) == 1000 * d <= x * 1609 /\ x * 1609 < 1000 * (d + 1)

\* C12 as stated: for every prompt holding a number followed by mi or millas
\* the parsed distance is that number times 1.609.
C12_MileDistance ==
  (Classified /\ pParts[1].unit \in MiUnits) =>
    /\ Len(pResult[1].distanceKm) = 1
    /\ IsTimesMile(pResult[1].distanceKm[1], NumberValue(pParts[1]))

\* C12, amended: for a prompt whose first number is followed by mi or millas
\* and which holds no number followed by km, k or kilómetros, the parsed
\* distance is that number times 1.609; a km distance anywhere in the prompt
\* takes precedence over the miles.
C12_MileDistanceWithoutKm ==
  (Classified /\ pParts[1].unit \in MiUnits) =>
    IF pParts[1].after = A_5km
      THEN pResult[1].distanceKm = <<5 * DistUnit>>
      ELSE /\ Len(pResult[1].distanceKm) = 1
           /\ IsTimesMile(pResult[1].distanceKm[1], NumberValue(pParts[1]))

C12_Witness ==
  /\ Classified
  /\ pParts[1].unit = K_millas
  /\ pParts[1].whole = 7
  /\ pParts[1].frac = <<[sep |-> ",", digits |-> 2, n |-> 4]>>
  /\ pParts[1].after = <<>>
  /\ pResult[1].distanceKm = <<113273>>

\* C13: the distance of the Intent parsePrompt returns is unset or strictly
\* positive.
C13_DistancePositive ==
  pc = "done" =>
    \/ pResult[1].distanceKm = Undefined
    \/ pResult[1].distanceKm[1] > 0

(***************************************************************************)
(* Properties of route and routine synthesis (checked under SpecSynth).    *)
(***************************************************************************)
RouteBuilt == sRoute # Undefined
RoutineBuilt == sRoutine # Undefined

\* t is the distance d scaled by 10 and rounded to an integer, halves upwards
IsRoundedTenths(t, d) ==
  /\ (2 * t - 1) * DistUnit <= 20 * d
  /\ 20 * d < (2 * t + 1) * DistUnit
RoundedTenths(d) == CHOOSE t \in 0..((10 * d) \div DistUnit + 1) : IsRoundedTenths(t, d)

\* the distances within three steps of d
Nearby(d) == {d + j * DistStep : j \in -3..3} \cap SynthDistances

\* C14: the id of a synthesized route is made of the mode and of the distance
\* scaled by 10 and rounded to an integer, and a second synthesized route has
\* the same id exactly when it has the same mode and the same rounded
\* distance, whatever its focus.
C14_IdOfModeAndRoundedDistance ==
  RouteBuilt =>
    /\ sRoute[1].id = <<"coach", sMode, ToString(RoundedTenths(sDistanceKm))>>
    /\ \A d \in Nearby(sDistanceKm), m \in Modes, focus \in FocusLabels :
         (buildRouteFromPrompt(d, m, focus).id = sRoute[1].id)
           <=> (m = sMode /\ RoundedTenths(d) = RoundedTenths(sDistanceKm))

\* 7.05 km and 7.1 km collide on coach-hike-71, 7.0 km does not
C14_Witness ==
  /\ RouteBuilt
  /\ sMode = "hike"
  /\ sFocus = "Parques"
  /\ sDistanceKm = 141 * DistStep
  /\ sRoute[1].id = <<"coach", "hike", "71">>
  /\ buildRouteFromPrompt(142 * DistStep, "hike", "Ruta equilibrada").id = sRoute[1].id
  /\ buildRouteFromPrompt(140 * DistStep, "hike", "Parques").id # sRoute[1].id

\* C15: a synthesized route has 4 waypoints for a distance of at most 9 km,
\* 5 for a distance above 9 and at most 12 km, and 6 above 12 km.
C15_WaypointCount ==
  RouteBuilt =>
    Len(sRoute[1].points) =
      IF sDistanceKm <= 9 * DistUnit THEN 4
      ELSE IF sDistanceKm <= 12 * DistUnit THEN 5
      ELSE 6

C15_Witness ==
  /\ RouteBuilt
  /\ sDistanceKm = 12 * DistUnit
  /\ Len(sRoute[1].points) = 5

\* the fixed base polyline and the points the thresholds add
Start == PtL(12, 86, "Inicio")
BaseSecond == Pt(36, 64)
BaseThird == Pt(58, 50)
BaseEnd == PtL(82, 26, "Fin")
MidPoint == PtL(48, 56, "Punto")
MovedEnd == PtL(86, 18, "Fin")
EarlyPoint == PtL(26, 74, "Extra")
Positions(points, p) == {i \in 1..Len(points) : points[i] = p}

\* C16 as stated: above 9 km the extra mid-point stands directly before the
\* last point and the endpoint is moved, above 12 km a further point stands
\* early in the path, and the first point is the start and the last the end.
C16_MidPointBeforeLast ==
  RouteBuilt =>
    LET points == sRoute[1].points
        n == Len(points)
    IN /\ points[1] = Start
       /\ points[n] = (IF sDistanceKm > 9 * DistUnit THEN MovedEnd ELSE BaseEnd)
       /\ Positions(points, MidPoint)
            = (IF sDistanceKm > 9 * DistUnit THEN {n - 1} ELSE {})
       /\ Positions(points, EarlyPoint)
            = (IF sDistanceKm > 12 * DistUnit THEN {2} ELSE {})

\* C16, amended: up to 9 km the route is the 4-point base polyline; above
\* 9 km the mid-point is the third point, between the second and the third
\* base point, and the moved endpoint takes the place of the base endpoint;
\* above 12 km the early point is in addition the second point, directly
\* after the start.  The first point is always the start and the last point
\* the (moved) end.
C16_ShapeInsertions ==
  RouteBuilt =>
    sRoute[1].points =
      IF sDistanceKm <= 9 * DistUnit
        THEN <<Start, BaseSecond, BaseThird, BaseEnd>>
      ELSE IF sDistanceKm <= 12 * DistUnit
        THEN <<Start, BaseSecond, MidPoint, BaseThird, MovedEnd>>
      ELSE <<Start, EarlyPoint, BaseSecond, MidPoint, BaseThird, MovedEnd>>

C16_Witness ==
  /\ RouteBuilt
  /\ sDistanceKm = 13 * DistUnit
  /\ Positions(sRoute[1].points, MidPoint) = {4}
  /\ Positions(sRoute[1].points, EarlyPoint) = {2}
  /\ Positions(sRoute[1].points, MovedEnd) = {6}

\* the pace of a mode in tenths of a minute per km
PaceTable == [walk |-> 115, run |-> 52, jog |-> 65, hike |-> 105]

\* e is x rounded to an integer, halves upwards, for x = num / den
IsRounded(e, num, den) == (2 * e - 1) * den <= 2 * num /\ 2 * num < (2 * e + 1) * den

\* C17: the estimated duration of a synthesized route is the distance times
\* the pace of the mode (walk 11.5, run 5.2, jog 6.5, hike 10.5 minutes per
\* km) rounded to an integer; 8 km of running take 42 minutes.
C17_EstimatedMinutes ==
  RouteBuilt =>
    IsRounded(sRoute[1].estMinutes, sDistanceKm * PaceTable[sMode], 10 * DistUnit)

C17_Witness ==
  /\ RouteBuilt
  /\ sDistanceKm = 8 * DistUnit
  /\ sMode = "run"
  /\ sRoute[1].estMinutes = 42

\* C18: hike gives elevation "+200 m" and surface "Trail", run gives "+80 m",
\* jog and walk give "+40 m", and for every mode but hike the surface is the
\* focus label passed in.
C18_ElevationAndSurface ==
  RouteBuilt =>
    /\ sRoute[1].elevation =
         [hike |-> "+200 m", run |-> "+80 m", jog |-> "+40 m", walk |-> "+40 m"][sMode]
    /\ sMode = "hike" => sRoute[1].surface = "Trail"
    /\ sMode # "hike" => sRoute[1].surface = sFocus

C18_Witness ==
  /\ RouteBuilt
  /\ sMode = "hike"
  /\ sFocus = "Parques"
  /\ sRoute[1].surface = "Trail"
  /\ sRoute[1].elevation = "+200 m"

\* the step names of the routine of each intent
StepNames ==
  [easy |-> <<"Calentamiento", "Bloque", "Strides", "Enfriar">>,
   tempo |-> <<"Calentamiento", "Tempo", "Bloque", "Enfriar">>,
   intervals |-> <<"Calentamiento", "Series", "Progresivo", "Enfriar">>,
   trail |-> <<"Calentamiento", "Bloque", "Técnico", "Enfriar">>]

\* C19: the routine is fixed by the intent alone: whatever the distance, the
\* mode and the focus of the generation, its steps are those of the intent,
\* 3 to 4 of them, the first the warm-up ("Calentamiento") and the last the
\* cool-down ("Enfriar"), and different intents give different routines.
C19_RoutineOfIntentOnly ==
  RoutineBuilt =>
    LET r == sRoutine[1]
    IN /\ Len(r) \in 3..4
       /\ [i \in 1..Len(r) |-> r[i].step] = StepNames[sIntent]
       /\ r[1].step = "Calentamiento"
       /\ r[Len(r)].step = "Enfriar"
       /\ \A other \in Intents \ {sIntent} : buildRoutine(other) # r

C19_Witness ==
  /\ RoutineBuilt
  /\ sIntent = "tempo"
  /\ sMode = "walk"
  /\ sDistanceKm = 13 * DistUnit
  /\ sRoutine[1][2] = Item("Tempo", "20 min a ritmo controlado")

(***************************************************************************)
(* Properties of the load handler (checked under SpecMap).                 *)
(***************************************************************************)
\* the step in which map k fires its load event for an initialization that
\* was not superseded
LoadsLive(k) ==
  /\ k <= Len(maps)
  /\ ~maps[k].loaded
  /\ maps'[k].loaded
  /\ ~boots[maps[k].boot].cancelled

C22_LayersAndReadyOnlyAfterLoad ==
  /\ \A k \in 1..Len(maps) : maps[k].layers # 0 => maps[k].loaded
  /\ mapReady => /\ mapInstance # 0
                 /\ maps[mapInstance].loaded
                 /\ ~maps[mapInstance].removed

\* the view is ready on a second map instance that shows the current route,
\* after a route change that had to wait for the load event
C22_Witness ==
  /\ mapReady
  /\ mapInstance > 1
  /\ maps[mapInstance].layers = route
  /\ route # boots[maps[mapInstance].boot].route

(***************************************************************************)
(* Properties of buildRouteGeo (checked under SpecSynth).                  *)
(***************************************************************************)
GeoBuilt == sGeo # Undefined

\* the longitude and latitude the claim states for the waypoint (x, y), in
\* units of 0.00001 degree: -74.042 + (x - 50) * 0.00075 and
\* 4.6946 + (50 - y) * 0.00075
StatedLngLat(x, y) == <<75 * x - 7407950, 473210 - 75 * y>>

\* C23: for every route, the geometry built has one coordinate per waypoint,
\* in waypoint order, at the stated longitude and latitude, on the line and on
\* the point features alike; the first point feature is the start, the last
\* one the end and every other one a mid point.
C23_RouteGeometry ==
  GeoBuilt =>
    LET pts == sGeo[1].route.points
        g == sGeo[1].geo
    IN /\ Len(g.line.coordinates) = Len(pts)
       /\ Len(g.points) = Len(pts)
       /\ \A i \in 1..Len(pts) :
            /\ g.line.coordinates[i] = StatedLngLat(pts[i].x, pts[i].y)
            /\ g.points[i].coordinates = StatedLngLat(pts[i].x, pts[i].y)
            /\ g.points[i].kind = (IF i = 1 THEN "start"
                                   ELSE IF i = Len(pts) THEN "end" ELSE "mid")

\* the geometry of a generated route of six waypoints was built
C23_Witness ==
  /\ GeoBuilt
  /\ sRoute # Undefined
  /\ sGeo[1].route = sRoute[1]
  /\ Len(sGeo[1].geo.points) = 6
  /\ sGeo[1].geo.points[2].kind = "mid"

(***************************************************************************)
(* Properties of the routes sheet and the coach panel (checked under       *)
(* SpecPanels).                                                            *)
(***************************************************************************)
\* C26: in every reachable state the routes sheet and the coach panel are not
\* both open.
C26_SheetAndCoachExclusive == ~(sheetOpen /\ showCoachPanel)

\* C30: a press of the bottom-navigation Ruta button leaves the routes sheet
\* open and the coach panel closed, a press of its Coach button leaves the
\* coach panel open and the routes sheet closed, and a press of its Mapa
\* button leaves both closed, whatever was open before.
C30_BottomNavButtons ==
  [][/\ lastPress' = "nav-ruta" => (sheetOpen' /\ ~showCoachPanel')
     /\ lastPress' = "nav-coach" => (showCoachPanel' /\ ~sheetOpen')
     /\ lastPress' = "nav-mapa" => (~sheetOpen' /\ ~showCoachPanel')]_vars

\* the Ruta button was pressed with the routes sheet already open: the sheet
\* stays open
C30_Witness ==
  /\ lastPress = "nav-ruta"
  /\ sheetOpen
  /\ ~showCoachPanel
  /\ infoOpen

(***************************************************************************)
(* Properties of the coach generation (C24 and C28 checked under           *)
(* SpecCoach, C25 and C29 under Spec).                                     *)
(***************************************************************************)
\* the default distance of each mode as stated, in units of 1/DistUnit km
DefaultKm ==
  [walk |-> 45 * (DistUnit \div 10), jog |-> 65 * (DistUnit \div 10),
   hike |-> 105 * (DistUnit \div 10), run |-> 80 * (DistUnit \div 10)]

\* C24: the step of a coach generation with a non-blank prompt sets the mode
\* to the inferred mode, puts the new route last in that mode's coach list and
\* makes it the active route, gives it the parsed distance or, without one,
\* the default distance of the inferred mode, sets the routine to the one of
\* the inferred intent and the step index to 0.
C24_GenerationStep ==
  [][(lastOp'.op = "handleCoachPlan" /\ ~IsBlank(coachPrompt)) =>
       /\ lastOp'.parsed # Undefined
       /\ LET inferred == lastOp'.parsed[1]
              list == customRoutes'[inferred.mode]
              new == list[Len(list)]
          IN /\ mode' = inferred.mode
             /\ Len(list) > 0
             /\ activeRouteId' = new.id
             /\ activeRoute' = <<new>>
             /\ new.distanceKm = (IF inferred.distanceKm # Undefined
                                    THEN inferred.distanceKm[1]
                                    ELSE DefaultKm[inferred.mode])
             /\ [i \in 1..Len(routine') |-> routine'[i].step] = StepNames[inferred.intent]
             /\ currentStepIndex' = 0]_vars

\* a generation of a prompt that names the walk mode and no distance: the
\* active route has the default distance of the walk mode
C24_Witness ==
  /\ Generated
  /\ coachPrompt = W_caminar
  /\ mode = "walk"
  /\ activeRoute # Undefined
  /\ activeRoute[1].distanceKm = DefaultKm["walk"]
  /\ currentStepIndex = 0

\* C25: in every reachable state the current step index is an index of the
\* current routine.
C25_StepIndexValid == 0 <= currentStepIndex /\ currentStepIndex < Len(routine)

\* the last step of a generated routine is selected: an index the routine the
\* screen starts with does not have
C25_Witness ==
  /\ currentStepIndex = 3
  /\ Len(routine) = 4
  /\ customRoutes["hike"] # <<>>

\* C28: a press of generate that directly follows a generation with the same
\* non-blank prompt leaves mode, coach lists, active route, routine, step
\* index and coach note as they were.
C28_GenerationIdempotent ==
  [][(Generated /\ lastOp'.op = "handleCoachPlan" /\ coachPrompt' = coachPrompt) =>
       UNCHANGED <<mode, customRoutes, activeRouteId, routine, currentStepIndex,
                   coachNote>>]_vars

\* generate was pressed twice in a row: the second route took the place of
\* the first
C28_Witness ==
  /\ Generated
  /\ lastOp.replaced
  /\ Len(customRoutes[mode]) = 1
  /\ coachPrompt = W_7c5k

\* the ids of the built-in catalog
CatalogIds == UNION {IdsOf(baseRoutes[m]) : m \in Modes}

\* the entries of rs other than those with the given id, in their order
Others(rs, id) == SelectSeq(rs, LAMBDA r : r.id # id)

\* C29: a coach generation leaves the coach lists of the modes other than the
\* inferred one as they were, keeps the other entries of the inferred mode's
\* list in their order in front of the new route, and no coach route ever has
\* the id of a catalog route.
C29_GenerationFrame ==
  [][/\ \A m \in Modes : IdsOf(customRoutes'[m]) \cap CatalogIds = {}
     /\ (lastOp'.op = "handleCoachPlan" /\ lastOp'.parsed # Undefined) =>
          LET m == lastOp'.parsed[1].mode
              list == customRoutes'[m]
          IN /\ \A o \in Modes \ {m} : customRoutes'[o] = customRoutes[o]
             /\ SubSeq(list, 1, Len(list) - 1) = Others(customRoutes[m], activeRouteId')]_vars

\* a generation for the hike mode put its route behind an older hike route,
\* with a coach route of another mode in place
C29_Witness ==
  /\ Generated
  /\ lastOp.parsed[1].mode = "hike"
  /\ Len(customRoutes["hike"]) = 2
  /\ \E o \in Modes \ {"hike"} : customRoutes[o] # <<>>

(***************************************************************************)
(* Progress of the route sync effect (checked under SpecMapFair).          *)
(***************************************************************************)
\* the route layers of the current map instance hold the current route
RouteDrawn == mapInstance # 0 /\ maps[mapInstance].layers = route

\* C27: whenever the view is ready, the route layers of the current map
\* eventually hold the current route (or the view leaves the ready state for
\* a new initialization).
C27_RouteEventuallyDrawn == [](mapReady => <>(RouteDrawn \/ ~mapReady))
====
